---- MODULE Spec2Model ----
(***************************************************************************)
(* SIGE Bot: the browser session controller (core/selenium_manager.py)     *)
(* and the download handler of the form layer (gui/main_window.py).        *)
(*                                                                         *)
(* Spec    : one SeleniumManager driven by an arbitrary single-threaded    *)
(*           client (login, navigate_to_section, get_element, close).      *)
(* AppSpec : the same manager driven by MainWindow.execute_download.       *)
(*                                                                         *)
(* The browser automation engine is the environment: every driver call     *)
(* that the code makes has its possible outcomes (result, TimeoutException,*)
(* any other exception) chosen nondeterministically.                       *)
(***************************************************************************)
EXTENDS Naturals, Sequences, FiniteSets

\* config/settings.py: MAX_LOGIN_ATTEMPTS
MAX_LOGIN_ATTEMPTS == 10

\* Bound of the model: browser handles that may be created in one behaviour.
MaxHandles == 2

VARIABLES
    driver,         \* self.driver: 0 is None, h >= 1 is the h-th browser handle created
    wait,           \* self.wait: 0 is None, h is the WebDriverWait bound to handle h
    is_logged_in,   \* self.is_logged_in
    quits,          \* environment: quits[h] = number of driver.quit() calls on handle h
    pc,             \* position of the manager: "idle", or "login" inside the retry loop
    intento,        \* loop variable of login(): number of the current (last) attempt
    navs,           \* history: driver.get(SIGE_LOGIN_URL) calls made by the current (last) login
    alerts,         \* history: attempts of the current (last) login ended by a dismissed alert
    timeouts,       \* history: attempts of the current (last) login ended by the marker timing out
    lastEv,         \* history: what the browser did in the last attempt
    startLogged,    \* history: is_logged_in when the current (last) login was called
    alwaysAlert,    \* history: every login attempt made so far on this manager showed an alert
    ret,            \* history: the last call on the manager: op, how it ended (val: the
                    \* value returned, "raised", or "pending"), its driver interaction
                    \* (w) and whether a link was clicked
    appPc,          \* position of MainWindow.execute_download ("off": no form layer)
    selected,       \* selected_modules of the running execute_download
    modIdx,         \* index of the next module to run
    success_count,  \* success_count of execute_download
    appOut,         \* history: exit path taken by the last execute_download
    closedInRun,    \* history: close() was invoked by the current (last) execute_download
    ranMods,        \* history: the modules run by the current (last) execute_download,
                    \* in order, each with what its run returned
    loginRet,       \* history: how the login of the current (last) execute_download
                    \* ended: "none" (not called), "pending", "True", "False", "raised"
    connFile,       \* CONNECTIONS_FILE: whether it exists and its lines (strings are
                    \* sequences of characters)
    storeOp,        \* history: the last DataStorage call, its arguments, its result and
                    \* the file before it
    parseOp,        \* history: the last parse_connection_string / load_connections call
    matDir,         \* the files of DOWNLOADS_DIR / "matricula": name and the download
                    \* each one holds (0: a file of an earlier session)
    original,       \* DOWNLOADS_DIR / "nomina_excel.xls": 0 is absent, n is the download
                    \* requested by the n-th export
    pending,        \* environment: downloads requested and not yet written by the browser
    exportNo,       \* history: number of roster exports started
    filePc,         \* position of _wait_and_rename_file: "idle" or "poll"
    elapsed,        \* seconds slept by the poll loop of the current call
    fileOp,         \* history: the last generate_unique_filename / _wait_and_rename_file
                    \* call: arguments, folder before and after, result
    modPc,          \* position of BaseModule.run: "idle", "pre" or "exec"
    modArgs,        \* the module of the current (last) run and the year it was given
    runLog,         \* history: the phases and log lines of the current (last) run
    runRet,         \* history: how the last run ended: "True", "False", "raised", "pending"
    runs,           \* history: number of run calls made
    fails,          \* environment: the fields of the school page whose lookup raises
    page,           \* environment: the values the school page holds
    colDir,         \* the files of DOWNLOADS_DIR / "datos_colegio": name and rows
    colOp,          \* history: the last DatosColegioModule.execute: what the browser
                    \* did, the dictionary extracted, the file written, the result
    matOp           \* history: the last MatriculaModule.execute: what the browser did,
                    \* the steps performed in order, the result

mgrVars == <<driver, wait, is_logged_in, quits, pc, intento, navs, alerts, timeouts,
             lastEv, startLogged, alwaysAlert, ret>>
appVars == <<appPc, selected, modIdx, success_count, appOut, closedInRun, ranMods,
             loginRet>>
storeVars == <<connFile, storeOp, parseOp>>
fileVars == <<matDir, original, pending, exportNo, filePc, elapsed, fileOp>>
modVars == <<modPc, modArgs, runLog, runRet, runs>>
colVars == <<fails, page, colDir, colOp>>
ioVars == <<storeVars, fileVars, modVars, colVars, matOp>>
vars == <<driver, wait, is_logged_in, quits, pc, intento, navs, alerts, timeouts,
          lastEv, startLogged, alwaysAlert, ret,
          appPc, selected, modIdx, success_count, appOut, closedInRun, ranMods,
          loginRet,
          connFile, storeOp, parseOp,
          matDir, original, pending, exportNo, filePc, elapsed, fileOp,
          modPc, modArgs, runLog, runRet, runs,
          fails, page, colDir, colOp, matOp>>

----------------------------------------------------------------------------
(* Strings are sequences of one-character strings, so that formatting,      *)
(* splitting and stripping are computed as the code computes them.          *)
(* The local filesystem is taken to be reliable: opening, reading, writing  *)
(* and moving files succeed, so the handlers that only report an I/O error  *)
(* are not modelled.                                                        *)

\* The value None, and the two shapes of a result that may be None.
None == [none |-> TRUE]

\* str.split(","): the fields between the commas, at least one.
RECURSIVE Split(_)
Split(s) ==
    IF \A i \in 1..Len(s) : s[i] # "," THEN <<s>>
    ELSE LET k == CHOOSE i \in 1..Len(s) :
                     s[i] = "," /\ \A j \in 1..(i - 1) : s[j] # ","
         IN <<SubSeq(s, 1, k - 1)>> \o Split(SubSeq(s, k + 1, Len(s)))

\* str.strip(): leading and trailing whitespace removed.
RECURSIVE Strip(_)
Strip(s) ==
    IF s = <<>> THEN s
    ELSE IF s[1] = " " THEN Strip(Tail(s))
    ELSE IF s[Len(s)] = " " THEN Strip(SubSeq(s, 1, Len(s) - 1))
    ELSE s

\* ConnectionData(usuario, clave, perfil)
ConnectionData(u, c, p) == [usuario |-> u, clave |-> c, perfil |-> p]

\* ConnectionData.__str__
Str(conn) == conn.usuario \o <<",">> \o conn.clave \o <<",">> \o conn.perfil

\* Mutant of ParseConnectionString: at least three fields are accepted and
\* the first three taken.
ParseConnectionStringAtLeastThree(s) ==
    LET parts == Split(s) IN
    IF Len(parts) >= 3 THEN ConnectionData(parts[1], parts[2], parts[3]) ELSE None

\* DataStorage.parse_connection_string
ParseConnectionString(s) ==
    LET parts == Split(s) IN
    IF Len(parts) = 3 THEN ConnectionData(parts[1], parts[2], parts[3]) ELSE None

\* Mutant of LoadLines: lines are split without being stripped and every line
\* with at least three fields gives a record.
RECURSIVE LoadLinesAtLeastThree(_)
LoadLinesAtLeastThree(lines) ==
    IF lines = <<>> THEN <<>>
    ELSE LET parts == Split(Head(lines)) IN
         IF Len(parts) >= 3
         THEN <<ConnectionData(parts[1], parts[2], parts[3])>>
                  \o LoadLinesAtLeastThree(Tail(lines))
         ELSE LoadLinesAtLeastThree(Tail(lines))

\* DataStorage.load_connections, lines 63-70: the loop over the lines of the file
RECURSIVE LoadLines(_)
LoadLines(lines) ==
    IF lines = <<>> THEN <<>>
    ELSE LET line == Strip(Head(lines))
             parts == Split(line)
         IN IF line = <<>> THEN LoadLines(Tail(lines))
            ELSE IF Len(parts) = 3
            THEN <<ConnectionData(parts[1], parts[2], parts[3])>> \o LoadLines(Tail(lines))
            ELSE LoadLines(Tail(lines))

\* DataStorage.load_connections
LoadConnections(f) == IF ~f.exists THEN <<>> ELSE LoadLines(f.lines)

\* DataStorage._write_connections: the file is rewritten, one line per record
WriteConnections(connections) ==
    [exists |-> TRUE, lines |-> [i \in 1..Len(connections) |-> Str(connections[i])]]

\* The indexes of the records of usuario u
IndexesOf(connections, u) == {i \in 1..Len(connections) : connections[i].usuario = u}

\* Smallest element of a non-empty set of numbers
Min(S) == CHOOSE x \in S : \A y \in S : x <= y

\* Mutant of SaveConnection: an existing record is removed and the new one
\* appended.
SaveConnectionMovesToEnd(f, u, c, p) ==
    LET connections == LoadConnections(f) IN
    WriteConnections(Append(SelectSeq(connections, LAMBDA x : x.usuario # u),
                            ConnectionData(u, c, p)))

\* Mutant of SaveConnection: the new record is always appended.
SaveConnectionAlwaysAppends(f, u, c, p) ==
    WriteConnections(Append(LoadConnections(f), ConnectionData(u, c, p)))

\* Mutant of SaveConnection: a new record is appended to the file as it is,
\* the lines already there kept.
SaveConnectionAppendsLine(f, u, c, p) ==
    LET connections == LoadConnections(f)
        found == IndexesOf(connections, u)
    IN IF found # {}
       THEN WriteConnections([connections EXCEPT ![Min(found)] = ConnectionData(u, c, p)])
       ELSE [exists |-> TRUE, lines |-> Append(f.lines, Str(ConnectionData(u, c, p)))]

\* DataStorage.save_connection: the file after the call
SaveConnection(f, u, c, p) ==
    LET connections == LoadConnections(f)
        found == IndexesOf(connections, u)
    IN IF found # {}
       THEN WriteConnections([connections EXCEPT ![Min(found)] = ConnectionData(u, c, p)])
       ELSE WriteConnections(Append(connections, ConnectionData(u, c, p)))

\* Mutant of DeleteConnection: the file is rewritten whether or not a record
\* was removed.
DeleteConnectionAlwaysWrites(f, u) ==
    LET connections == LoadConnections(f)
        kept == SelectSeq(connections, LAMBDA x : x.usuario # u)
    IN [file |-> WriteConnections(kept), result |-> Len(kept) < Len(connections)]

\* DataStorage.delete_connection: the file after the call and the result
DeleteConnection(f, u) ==
    LET connections == LoadConnections(f)
        kept == SelectSeq(connections, LAMBDA x : x.usuario # u)
    IN IF Len(kept) < Len(connections)
       THEN [file |-> WriteConnections(kept), result |-> TRUE]
       ELSE [file |-> f, result |-> FALSE]

\* DataStorage.find_connection: the first record of usuario u, or None
FindConnection(f, u) ==
    LET connections == LoadConnections(f)
        found == IndexesOf(connections, u)
    IN IF found # {} THEN connections[Min(found)] ELSE None

NoStoreOp == [op |-> "none", usuario |-> <<>>, clave |-> <<>>, perfil |-> <<>>,
              result |-> FALSE, before |-> [exists |-> FALSE, lines |-> <<>>]]

NoParseOp == [op |-> "none", input |-> <<>>, conn |-> None, result |-> None]

\* No credential file, no call made yet.
StoreIdle ==
    /\ connFile = [exists |-> FALSE, lines |-> <<>>]
    /\ storeOp = NoStoreOp
    /\ parseOp = NoParseOp

----------------------------------------------------------------------------
(* File names                                                               *)

DigitChars == <<"0", "1", "2", "3", "4", "5", "6", "7", "8", "9">>

\* The decimal text of a natural number, as an f-string formats it
RECURSIVE Digits(_)
Digits(n) ==
    IF n < 10 THEN <<DigitChars[n + 1]>>
    ELSE Digits(n \div 10) \o <<DigitChars[(n % 10) + 1]>>

\* generate_unique_filename, line 24: f"{base_name}_{contador}{extension}"
FileName(base_name, contador, extension) ==
    base_name \o <<"_">> \o Digits(contador) \o extension

\* The names of the files of a folder
Names(dir) == {f.name : f \in dir}

\* generate_unique_filename, lines 23-30: the loop, from a value of contador
RECURSIVE Probe(_, _, _, _)
Probe(names, base_name, extension, contador) ==
    IF FileName(base_name, contador, extension) \notin names
    THEN FileName(base_name, contador, extension)
    ELSE Probe(names, base_name, extension, contador + 1)

\* Mutant of GenerateUniqueFilename: contador starts at 0.
GenerateUniqueFilenameFromZero(names, base_name, extension) ==
    Probe(names, base_name, extension, 0)

\* generate_unique_filename(directory, base_name, extension), directory given
\* by the names of its files
GenerateUniqueFilename(names, base_name, extension) ==
    Probe(names, base_name, extension, 1)

\* Mutant of MoveFile: the file is copied and stays at the download location.
MoveFileCopies(dir, orig, path) ==
    [dir |-> {f \in dir : f.name # path} \cup {[name |-> path, id |-> orig]},
     orig |-> orig]

\* shutil.move(original_file, destination_file): the folder and the download
\* location after the move; a file already at the destination is replaced
MoveFile(dir, orig, path) ==
    [dir |-> {f \in dir : f.name # path} \cup {[name |-> path, id |-> orig]},
     orig |-> 0]

\* The extension of an export and the base names used
Ext == <<".", "x", "l", "s">>
Bases == {<<"m">>, <<"m", "_", "1">>}

NoFileOp == [op |-> "none", base |-> <<>>, dirBefore |-> {}, dirAfter |-> {},
             path |-> <<>>, ret |-> FALSE, moved |-> 0, origAfter |-> 0, polls |-> 0]

\* An empty matricula folder, no download, no call made yet.
FileIdle ==
    /\ matDir = {}
    /\ original = 0
    /\ pending = {}
    /\ exportNo = 0
    /\ filePc = "idle"
    /\ elapsed = 0
    /\ fileOp = NoFileOp

----------------------------------------------------------------------------
(* BaseModule: parameter validation                                         *)

\* A year given as a string
Text(s) == [text |-> s]

\* str(year).isdigit()
IsDigit(s) == Len(s) > 0 /\ \A i \in 1..Len(s) : \E d \in 1..Len(DigitChars) : s[i] = DigitChars[d]

\* Mutant of ValidateParameters: any non-empty year is accepted.
ValidateParametersNonEmpty(requires_year, year) ==
    IF requires_year
    THEN ~(year = None \/ year.text = <<>>)
    ELSE TRUE

\* BaseModule.validate_parameters: year is None when the parameter is
\* missing, else Text of the string given
ValidateParameters(requires_year, year) ==
    IF requires_year
    THEN ~(year = None \/ year.text = <<>> \/ ~IsDigit(year.text))
    ELSE TRUE

\* Mutant of RunExcept: the handler logs the error and lets the exception
\* go on to the caller.
RunExceptReraises(log) == [log |-> Append(log, "error"), ret |-> "raised"]

\* BaseModule.run, lines 121-124: the exception handler logs the error, calls
\* post_execute(False) and returns False
RunExcept(log) == [log |-> log \o <<"error", "postFalse">>, ret |-> "False"]

\* requires_year of the registered modules
RequiresYear(key) == key = "matricula"

NoArgs == [module |-> "none", year |-> None]

\* No run made yet.
ModIdle ==
    /\ modPc = "idle"
    /\ modArgs = NoArgs
    /\ runLog = <<>>
    /\ runRet = "none"
    /\ runs = 0

----------------------------------------------------------------------------
(* DatosColegioModule: the fields of the school page                        *)

\* _extract_school_data, lines 75-86: the labels of campos_input, in order
InputLabels ==
    << "N° Res. RECOFI/ N° Docto. Traspaso", "Fecha Resolución", "Dirección Calle",
       "Número", "E-mail", "RUN Director", "Nombre Director", "Ap Paterno Director",
       "Ap Materno Director", "E-mail Director" >>

\* The keys of the dictionary in the order they are set
DatosKeys == <<"Nombre">> \o InputLabels \o <<"Fono", "Celular", "Género">>

\* The keys whose value is one text of the page, stripped
SimpleKeys == {"Nombre", "Género"} \cup {InputLabels[i] : i \in 1..Len(InputLabels)}

\* f"{a}-{b}" if a and b else ""
Composite(a, b) == IF a # <<>> /\ b # <<>> THEN a \o <<"-">> \o b ELSE <<>>

\* What the page gives for a key when its lookup does not raise
PageValue(pg, key) ==
    IF key = "Fono" THEN Composite(pg.area, pg.numero)
    ELSE IF key = "Celular" THEN Composite(pg.prefijo, pg.celular)
    ELSE IF key = "Nombre" THEN Strip(pg.nombre)
    ELSE IF key = "Género" THEN Strip(pg.genero)
    ELSE Strip(pg.valor)

\* Mutant of ExtractSchoolData: a field whose lookup raises gets no key.
ExtractSchoolDataOmitsFailed(fs, pg) ==
    LET kept == SelectSeq(DatosKeys, LAMBDA k : k \notin fs)
    IN [i \in 1..Len(kept) |-> [key |-> kept[i], value |-> PageValue(pg, kept[i])]]

\* _extract_school_data: the dictionary, as its items in order; fs are the
\* fields whose lookup raises
ExtractSchoolData(fs, pg) ==
    [i \in 1..Len(DatosKeys) |->
        [key |-> DatosKeys[i],
         value |-> IF DatosKeys[i] \in fs THEN <<>> ELSE PageValue(pg, DatosKeys[i])]]

\* _save_to_excel, lines 155-161: the header row and the data row
SheetRows(usuario, datos) ==
    << <<"RBD">> \o [i \in 1..Len(datos) |-> datos[i].key],
       <<usuario>> \o [i \in 1..Len(datos) |-> datos[i].value] >>

\* A page with every value present
FullPage ==
    [nombre |-> <<" ", "n">>, valor |-> <<"v", " ">>, genero |-> <<"g">>,
     area |-> <<"2">>, numero |-> <<"5">>, prefijo |-> <<"9">>, celular |-> <<"7">>]

NoColOp == [op |-> "none", nav |-> "na", wait |-> "na", usuario |-> <<>>, datos |-> <<>>,
            path |-> <<>>, dirBefore |-> {}, ret |-> FALSE]

\* No school export made yet.
ColIdle ==
    /\ fails = {}
    /\ page = FullPage
    /\ colDir = {}
    /\ colOp = NoColOp

\* What the browser does during one roster export, step by step; "na": the
\* step was not reached
NoMatEv == [nav |-> "na", excel |-> "na", excelClick |-> "na", url |-> "na",
            yearSel |-> "na", select |-> "na", dl |-> "na", dlClick |-> "na",
            alert |-> "na", file |-> "na"]

NoMatOp == [op |-> "none", ev |-> NoMatEv, steps |-> <<>>, ret |-> FALSE]

\* No roster export made yet.
MatIdle == matOp = NoMatOp

\* Nothing stored, downloaded or run yet.
IoInit ==
    /\ StoreIdle
    /\ FileIdle
    /\ ModIdle
    /\ ColIdle
    /\ MatIdle

----------------------------------------------------------------------------
(* What the browser can do during one login attempt (login, lines 60-101).  *)
(* A field is "na" when the code does not reach that step.                  *)

NoEv == [form |-> "na", alert |-> "na", marker |-> "na",
         overlay |-> "na", button |-> "na", esc |-> "na", gone |-> "na"]

\* lines 62-78: driver.get, wait for the user field, find/fill the fields, submit
FormFaults == {"navErr", "fieldTimeout", "fillErr", "submitErr"}

\* _close_initial_popup: outcomes of its four driver interactions
PopupEnvs ==
    {[overlay |-> o, button |-> "na", esc |-> "na", gone |-> "na"] :
        o \in {"timeout", "err"}}
    \cup {[overlay |-> "present", button |-> "clicked", esc |-> "na", gone |-> g] :
        g \in {"gone", "timeout", "err"}}
    \cup {[overlay |-> "present", button |-> "fail", esc |-> e, gone |-> "na"] :
        e \in {"timeout", "err"}}
    \cup {[overlay |-> "present", button |-> "fail", esc |-> "ok", gone |-> g] :
        g \in {"gone", "timeout", "err"}}

AttemptEnvs ==
    {[NoEv EXCEPT !.form = f] : f \in FormFaults}
    \cup {[NoEv EXCEPT !.form = "ok", !.alert = a] : a \in {"shown", "shownErr", "waitErr"}}
    \cup {[NoEv EXCEPT !.form = "ok", !.alert = "none", !.marker = m] :
            m \in {"timeout", "err"}}
    \cup {[NoEv EXCEPT !.form = "ok", !.alert = "none", !.marker = "appears",
                       !.overlay = p.overlay, !.button = p.button,
                       !.esc = p.esc, !.gone = p.gone] : p \in PopupEnvs}

\* _handle_alerts: "True" an alert was found and accepted, "False" the wait
\* timed out, "raise" any other exception (reading or accepting the alert, or
\* the wait itself failing) leaves the method.
HandleAlerts(a) ==
    CASE a = "shown" -> "True"
      [] a = "none"  -> "False"
      [] OTHER       -> "raise"

\* _close_initial_popup: "return" or "raise". Only TimeoutException is caught
\* by the outer handler; the button step catches every Exception and falls
\* back to the escape key.
CloseInitialPopup(ev) ==
    CASE ev.overlay = "timeout" -> "return"
      [] ev.overlay = "err"     -> "raise"
      [] OTHER ->
           IF ev.button = "fail" /\ ev.esc = "timeout" THEN "return"
           ELSE IF ev.button = "fail" /\ ev.esc = "err" THEN "raise"
           ELSE IF ev.gone = "err" THEN "raise"
           ELSE "return"

\* Mutant of AttemptOutcome: the handler of line 99 continues instead of
\* breaking.
AttemptOutcomeContinues(ev) ==
    IF ev.form # "ok" THEN "retry"
    ELSE IF HandleAlerts(ev.alert) = "True" THEN "retry"
    ELSE IF HandleAlerts(ev.alert) = "raise" THEN "retry"
    ELSE IF ev.marker = "timeout" THEN "retry"
    ELSE IF ev.marker = "err" THEN "retry"
    ELSE IF CloseInitialPopup(ev) = "raise" THEN "retry"
    ELSE "success"

\* One iteration of the retry loop of login: "success" (return True),
\* "retry" (continue) or "abort" (break).
AttemptOutcome(ev) ==
    IF ev.form # "ok" THEN "abort"
    ELSE IF HandleAlerts(ev.alert) = "True" THEN "retry"
    ELSE IF HandleAlerts(ev.alert) = "raise" THEN "abort"
    ELSE IF ev.marker = "timeout" THEN "retry"
    ELSE IF ev.marker = "err" THEN "abort"
    ELSE IF CloseInitialPopup(ev) = "raise" THEN "abort"
    ELSE "success"

Ret(op, val) == [op |-> op, val |-> val, w |-> "na", clicked |-> FALSE]

----------------------------------------------------------------------------
(* SeleniumManager                                                          *)

MgrInit ==
    /\ driver = 0
    /\ wait = 0
    /\ is_logged_in = FALSE
    /\ quits = <<>>
    /\ pc = "idle"
    /\ intento = 0
    /\ navs = 0
    /\ alerts = 0
    /\ timeouts = 0
    /\ lastEv = NoEv
    /\ startLogged = FALSE
    /\ alwaysAlert = TRUE
    /\ ret = Ret("none", "na")

\* initialize_driver, when webdriver.Chrome succeeds
InitializeDriver ==
    /\ driver' = Len(quits) + 1
    /\ wait' = Len(quits) + 1
    /\ quits' = Append(quits, 0)

\* Mutant of LoginStart: the handle is created by every login, whether or
\* not one exists.
LoginStartAlwaysCreates ==
    /\ pc = "idle"
    /\ Len(quits) < MaxHandles
    /\ \E chrome \in {"ok", "fails"} :
          IF chrome = "fails"
          THEN /\ ret' = Ret("login", "raised")
               /\ UNCHANGED <<driver, wait, quits, pc, intento, navs, alerts,
                              timeouts, lastEv>>
          ELSE /\ InitializeDriver
               /\ pc' = "login"
               /\ intento' = 1
               /\ navs' = 0
               /\ alerts' = 0
               /\ timeouts' = 0
               /\ lastEv' = NoEv
               /\ ret' = Ret("login", "pending")
    /\ startLogged' = is_logged_in
    /\ UNCHANGED <<is_logged_in, alwaysAlert>>

\* login, lines 56-59: lazy creation of the handle, then the loop is entered.
\* webdriver.Chrome may raise; the call is outside every try block.
LoginStart ==
    /\ pc = "idle"
    /\ driver # 0 \/ Len(quits) < MaxHandles
    /\ \E chrome \in {"ok", "fails"} :
          IF driver = 0 /\ chrome = "fails"
          THEN /\ ret' = Ret("login", "raised")
               /\ UNCHANGED <<driver, wait, quits, pc, intento, navs, alerts,
                              timeouts, lastEv>>
          ELSE /\ IF driver = 0 THEN InitializeDriver
                                ELSE UNCHANGED <<driver, wait, quits>>
               /\ pc' = "login"
               /\ intento' = 1
               /\ navs' = 0
               /\ alerts' = 0
               /\ timeouts' = 0
               /\ lastEv' = NoEv
               /\ ret' = Ret("login", "pending")
    /\ startLogged' = is_logged_in
    /\ UNCHANGED <<is_logged_in, alwaysAlert>>

\* Mutant of LoopContinues: range(1, MAX_LOGIN_ATTEMPTS) instead of
\* range(1, MAX_LOGIN_ATTEMPTS + 1).
LoopContinuesOffByOne(i) == i + 1 < MAX_LOGIN_ATTEMPTS

\* login, line 59: for intento in range(1, MAX_LOGIN_ATTEMPTS + 1) has a next
\* value after i.
LoopContinues(i) == i < MAX_LOGIN_ATTEMPTS

\* login, lines 59-104: one iteration of the retry loop and, when the loop
\* ends with it, the return.
LoginIteration(ev) ==
    /\ navs' = navs + 1
    /\ lastEv' = ev
    /\ alerts' = IF ev.alert = "shown" THEN alerts + 1 ELSE alerts
    /\ timeouts' = IF ev.alert = "none" /\ ev.marker = "timeout"
                   THEN timeouts + 1 ELSE timeouts
    /\ alwaysAlert' = (alwaysAlert /\ ev.alert = "shown")
    /\ CASE AttemptOutcome(ev) = "success" ->
              /\ is_logged_in' = TRUE
              /\ pc' = "idle"
              /\ ret' = Ret("login", "True")
              /\ UNCHANGED intento
         [] AttemptOutcome(ev) = "abort" ->
              /\ pc' = "idle"
              /\ ret' = Ret("login", "False")
              /\ UNCHANGED <<is_logged_in, intento>>
         [] OTHER ->
              IF LoopContinues(intento)
              THEN /\ intento' = intento + 1
                   /\ UNCHANGED <<is_logged_in, pc, ret>>
              ELSE /\ pc' = "idle"
                   /\ ret' = Ret("login", "False")
                   /\ UNCHANGED <<is_logged_in, intento>>

LoginAttempt ==
    /\ UNCHANGED ioVars
    /\ pc = "login"
    /\ \E ev \in AttemptEnvs : LoginIteration(ev)
    /\ UNCHANGED <<driver, wait, quits, startLogged>>
    /\ UNCHANGED appVars

\* Mutant of NavigateResult: the is_logged_in guard of line 163 is missing.
NavigateResultNoGuard(w, c) ==
    IF wait = 0 THEN [op |-> "navigate_to_section", val |-> "raised",
                      w |-> "na", clicked |-> FALSE]
    ELSE IF w = "timeout" THEN [op |-> "navigate_to_section", val |-> "False",
                                w |-> w, clicked |-> FALSE]
    ELSE IF w = "err" THEN [op |-> "navigate_to_section", val |-> "raised",
                            w |-> w, clicked |-> FALSE]
    ELSE IF c = "timeout" THEN [op |-> "navigate_to_section", val |-> "False",
                                w |-> w, clicked |-> FALSE]
    ELSE IF c = "err" THEN [op |-> "navigate_to_section", val |-> "raised",
                            w |-> w, clicked |-> FALSE]
    ELSE [op |-> "navigate_to_section", val |-> "True", w |-> w, clicked |-> TRUE]

\* navigate_to_section: w is the outcome of the wait for the clickable link,
\* c the outcome of link.click(). Only TimeoutException is caught.
NavigateResult(w, c) ==
    IF ~is_logged_in THEN [op |-> "navigate_to_section", val |-> "False",
                           w |-> "na", clicked |-> FALSE]
    ELSE IF wait = 0 THEN [op |-> "navigate_to_section", val |-> "raised",
                           w |-> "na", clicked |-> FALSE]
    ELSE IF w = "timeout" THEN [op |-> "navigate_to_section", val |-> "False",
                                w |-> w, clicked |-> FALSE]
    ELSE IF w = "err" THEN [op |-> "navigate_to_section", val |-> "raised",
                            w |-> w, clicked |-> FALSE]
    ELSE IF c = "timeout" THEN [op |-> "navigate_to_section", val |-> "False",
                                w |-> w, clicked |-> FALSE]
    ELSE IF c = "err" THEN [op |-> "navigate_to_section", val |-> "raised",
                            w |-> w, clicked |-> FALSE]
    ELSE [op |-> "navigate_to_section", val |-> "True", w |-> w, clicked |-> TRUE]

NavigateToSection ==
    /\ UNCHANGED ioVars
    /\ pc = "idle"
    /\ appPc = "off"
    /\ \E w \in {"clickable", "timeout", "err"}, c \in {"ok", "timeout", "err"} :
          ret' = NavigateResult(w, c)
    /\ UNCHANGED <<driver, wait, is_logged_in, quits, pc, intento, navs, alerts,
                   timeouts, lastEv, startLogged, alwaysAlert>>
    /\ UNCHANGED appVars

\* get_element: a fresh WebDriverWait on self.driver; only TimeoutException is
\* caught. With no driver the wait's condition fails on None (AttributeError).
GetElementResult(w) ==
    IF driver = 0 THEN Ret("get_element", "raised")
    ELSE IF w = "found" THEN Ret("get_element", "element")
    ELSE IF w = "timeout" THEN Ret("get_element", "None")
    ELSE Ret("get_element", "raised")

GetElement ==
    /\ UNCHANGED ioVars
    /\ pc = "idle"
    /\ appPc = "off"
    /\ \E w \in {"found", "timeout", "err"} : ret' = GetElementResult(w)
    /\ UNCHANGED <<driver, wait, is_logged_in, quits, pc, intento, navs, alerts,
                   timeouts, lastEv, startLogged, alwaysAlert>>
    /\ UNCHANGED appVars

\* Mutant of CloseBody: the browser is quit but self.driver is not reset.
CloseBodyKeepsDriver ==
    /\ IF driver # 0
       THEN /\ quits' = [quits EXCEPT ![driver] = @ + 1]
            /\ wait' = 0
            /\ is_logged_in' = FALSE
            /\ ret' = [Ret("close", "None") EXCEPT !.w = "quit"]
            /\ UNCHANGED driver
       ELSE /\ ret' = [Ret("close", "None") EXCEPT !.w = "noop"]
            /\ UNCHANGED <<driver, wait, is_logged_in, quits>>
    /\ UNCHANGED <<pc, intento, navs, alerts, timeouts, lastEv, startLogged,
                   alwaysAlert>>

\* close: ret.w records whether driver.quit() was called ("quit") or the
\* call found no handle ("noop").
CloseBody ==
    /\ IF driver # 0
       THEN /\ quits' = [quits EXCEPT ![driver] = @ + 1]
            /\ driver' = 0
            /\ wait' = 0
            /\ is_logged_in' = FALSE
            /\ ret' = [Ret("close", "None") EXCEPT !.w = "quit"]
       ELSE /\ ret' = [Ret("close", "None") EXCEPT !.w = "noop"]
            /\ UNCHANGED <<driver, wait, is_logged_in, quits>>
    /\ UNCHANGED <<pc, intento, navs, alerts, timeouts, lastEv, startLogged,
                   alwaysAlert>>

\* A client of the manager calls login or close between two calls.
Login ==
    /\ UNCHANGED ioVars
    /\ appPc = "off"
    /\ LoginStart
    /\ UNCHANGED appVars

Close ==
    /\ UNCHANGED ioVars
    /\ pc = "idle"
    /\ appPc = "off"
    /\ CloseBody
    /\ UNCHANGED appVars

Init ==
    /\ MgrInit
    /\ appPc = "off"
    /\ selected = <<>>
    /\ modIdx = 0
    /\ success_count = 0
    /\ appOut = "none"
    /\ closedInRun = FALSE
    /\ ranMods = <<>>
    /\ loginRet = "none"
    /\ IoInit

Next ==
    \/ Login
    \/ LoginAttempt
    \/ NavigateToSection
    \/ GetElement
    \/ Close

Spec == Init /\ [][Next]_vars

----------------------------------------------------------------------------
(* MainWindow.execute_download                                              *)

\* load_modules: the registered modules, in registration order
ModuleKeys == <<"matricula", "datos_colegio">>

\* The selections validate_input accepts (at least one module), each in
\* registration order.
Selections == {<<"matricula">>, <<"datos_colegio">>, <<"matricula", "datos_colegio">>}

\* What the form holds when the download button is pressed: an identifier
\* and a secret as typed, the name shown for a profile or another text, and
\* the modules ticked.
FormUsuarios == {<<>>, <<" ", "1">>}
FormClaves == {<<" ">>, <<"p">>}
FormPerfiles == {"", "Sostenedor", "Otro"}
FormSelections == Selections \cup {<<>>}

\* settings.AVAILABLE_PROFILES, in the order of the dictionary
AVAILABLE_PROFILES ==
    << [key |-> <<"1">>, value |-> "Establecimiento Subv."],
       [key |-> <<"2">>, value |-> "Sostenedor"],
       [key |-> <<"3">>, value |-> "Establecimiento Particular y DL 3166"],
       [key |-> <<"4">>, value |-> "Sala Cuna-Jardin"] >>

\* validation.is_valid_profile
IsValidProfile(profile_value) ==
    profile_value \in {<<"1">>, <<"2">>, <<"3">>, <<"4">>}

\* validate_input: the four tests of the form
ValidateInput(usuario, clave, perfil, sel) ==
    /\ Strip(usuario) # <<>>
    /\ Strip(clave) # <<>>
    /\ perfil # ""
    /\ sel # <<>>

\* Mutant of ProfileValue: a name that is not a profile's gets a default code.
ProfileValueDefaults(perfil_name) ==
    LET found == {i \in 1..Len(AVAILABLE_PROFILES) : AVAILABLE_PROFILES[i].value = perfil_name}
    IN IF found # {} THEN Text(AVAILABLE_PROFILES[Min(found)].key) ELSE Text(<<"0">>)

\* execute_download, lines 308-312: the code of the profile of that name, or
\* None
ProfileValue(perfil_name) ==
    LET found == {i \in 1..Len(AVAILABLE_PROFILES) : AVAILABLE_PROFILES[i].value = perfil_name}
    IN IF found # {} THEN Text(AVAILABLE_PROFILES[Min(found)].key) ELSE None

\* Mutant of SubmitStore: the connection is not saved.
SubmitStoreSkips(f, usuario, clave, perfil_valor) == f

\* execute_download, line 319: the credential file after the save of the
\* connection
SubmitStore(f, usuario, clave, perfil_valor) ==
    SaveConnection(f, usuario, clave, perfil_valor)

AppInit ==
    /\ MgrInit
    /\ appPc = "idle"
    /\ selected = <<>>
    /\ modIdx = 0
    /\ success_count = 0
    /\ appOut = "none"
    /\ closedInRun = FALSE
    /\ ranMods = <<>>
    /\ loginRet = "none"
    /\ IoInit

\* execute_download, lines 295-320: input validation, profile lookup, the
\* save of the connection and the refresh of the list of saved connections.
\* refresh: whether refresh_saved_connections raises.
ExecuteDownload ==
    /\ appPc = "idle"
    /\ pc = "idle"
    /\ \E fu \in FormUsuarios, fc \in FormClaves, fp \in FormPerfiles,
          sel \in FormSelections :
          LET usuario == Strip(fu)
              clave == Strip(fc)
              perfil_valor == ProfileValue(fp)
          IN /\ closedInRun' = FALSE
             /\ ranMods' = <<>>
             /\ loginRet' = "none"
             /\ selected' = sel
             /\ modIdx' = 0
             /\ success_count' = 0
             /\ IF ~ValidateInput(fu, fc, fp, sel)
                THEN /\ appPc' = "idle"
                     /\ appOut' = "invalidInput"
                     /\ UNCHANGED <<connFile, storeOp>>
                ELSE IF perfil_valor = None
                THEN /\ appPc' = "finally"
                     /\ appOut' = "badProfile"
                     /\ UNCHANGED <<connFile, storeOp>>
                ELSE /\ connFile' = SubmitStore(connFile, usuario, clave, perfil_valor.text)
                     /\ storeOp' = [op |-> "save", usuario |-> usuario, clave |-> clave,
                                    perfil |-> perfil_valor.text, result |-> FALSE,
                                    before |-> connFile]
                     /\ \E refresh \in {"ok", "raises"} :
                           IF refresh = "raises"
                           THEN appPc' = "finally" /\ appOut' = "exception"
                           ELSE appPc' = "callLogin" /\ appOut' = "running"
    /\ UNCHANGED <<parseOp, fileVars, modVars, colVars, matOp>>
    /\ UNCHANGED mgrVars

\* execute_download, line 323: the call of login. An exception of login goes
\* to the handler of line 352 and then to the finally block.
AppLogin ==
    /\ UNCHANGED ioVars
    /\ appPc = "callLogin"
    /\ LoginStart
    /\ IF ret'.val = "raised"
       THEN appPc' = "finally" /\ appOut' = "exception" /\ loginRet' = "raised"
       ELSE appPc' = "inLogin" /\ loginRet' = "pending" /\ UNCHANGED appOut
    /\ UNCHANGED <<selected, modIdx, success_count, closedInRun, ranMods>>

\* Mutant of AppAfterLogin: the result of login is not tested.
AppAfterLoginIgnoresResult ==
    /\ UNCHANGED ioVars
    /\ appPc = "inLogin"
    /\ pc = "idle"
    /\ loginRet' = ret.val
    /\ appPc' = "modules"
    /\ modIdx' = 1
    /\ success_count' = 0
    /\ UNCHANGED appOut
    /\ UNCHANGED <<selected, closedInRun, ranMods>>
    /\ UNCHANGED mgrVars

\* execute_download, lines 323-329: login has returned.
AppAfterLogin ==
    /\ UNCHANGED ioVars
    /\ appPc = "inLogin"
    /\ pc = "idle"
    /\ loginRet' = ret.val
    /\ IF ret.val = "False"
       THEN /\ appPc' = "finally"
            /\ appOut' = "loginFalse"
            /\ UNCHANGED <<modIdx, success_count>>
       ELSE /\ appPc' = "modules"
            /\ modIdx' = 1
            /\ success_count' = 0
            /\ UNCHANGED appOut
    /\ UNCHANGED <<selected, closedInRun, ranMods>>
    /\ UNCHANGED mgrVars

\* Mutant of AppRunModule: the loop stops at the first module whose run
\* returns False.
AppRunModuleStopsAtFailure ==
    /\ UNCHANGED ioVars
    /\ appPc = "modules"
    /\ modIdx <= Len(selected)
    /\ \E r \in {"True", "False", "raises"} :
          LET n == IF r = "True" THEN success_count + 1 ELSE success_count IN
          IF r = "raises"
          THEN /\ appPc' = "finally"
               /\ appOut' = "exception"
               /\ UNCHANGED <<success_count, modIdx, ranMods>>
          ELSE /\ success_count' = n
               /\ modIdx' = modIdx + 1
               /\ ranMods' = Append(ranMods, [key |-> selected[modIdx], ok |-> r = "True"])
               /\ IF modIdx = Len(selected) \/ r = "False"
                  THEN /\ appPc' = "finally"
                       /\ appOut' = IF n = Len(selected) THEN "allOk" ELSE "someFailed"
                  ELSE UNCHANGED <<appPc, appOut>>
    /\ UNCHANGED <<selected, closedInRun, loginRet>>
    /\ UNCHANGED mgrVars

\* execute_download, lines 331-355: one iteration of the module loop and,
\* after the last one, the summary. r is what the iteration does: run returns
\* True or False, or an exception leaves the loop body and is caught by the
\* handler of line 352.
AppRunModule ==
    /\ UNCHANGED ioVars
    /\ appPc = "modules"
    /\ modIdx <= Len(selected)
    /\ \E r \in {"True", "False", "raises"} :
          LET n == IF r = "True" THEN success_count + 1 ELSE success_count IN
          IF r = "raises"
          THEN /\ appPc' = "finally"
               /\ appOut' = "exception"
               /\ UNCHANGED <<success_count, modIdx, ranMods>>
          ELSE /\ success_count' = n
               /\ modIdx' = modIdx + 1
               /\ ranMods' = Append(ranMods, [key |-> selected[modIdx], ok |-> r = "True"])
               /\ IF modIdx = Len(selected)
                  THEN /\ appPc' = "finally"
                       /\ appOut' = IF n = Len(selected) THEN "allOk" ELSE "someFailed"
                  ELSE UNCHANGED <<appPc, appOut>>
    /\ UNCHANGED <<selected, closedInRun, loginRet>>
    /\ UNCHANGED mgrVars

\* Mutant of AppFinally: close() is called at the end of the try body (after
\* the summary) instead of in a finally block.
AppFinallyOnlyAfterSummary ==
    /\ UNCHANGED ioVars
    /\ appPc = "finally"
    /\ IF appOut \in {"allOk", "someFailed"}
       THEN CloseBody /\ closedInRun' = TRUE
       ELSE UNCHANGED mgrVars /\ UNCHANGED closedInRun
    /\ appPc' = "idle"
    /\ UNCHANGED <<selected, modIdx, success_count, appOut, ranMods, loginRet>>

\* execute_download, lines 357-363: the finally block.
AppFinally ==
    /\ UNCHANGED ioVars
    /\ appPc = "finally"
    /\ CloseBody
    /\ closedInRun' = TRUE
    /\ appPc' = "idle"
    /\ UNCHANGED <<selected, modIdx, success_count, appOut, ranMods, loginRet>>

AppNext ==
    \/ ExecuteDownload
    \/ AppLogin
    \/ LoginAttempt
    \/ AppAfterLogin
    \/ AppRunModule
    \/ AppFinally

AppSpec == AppInit /\ [][AppNext]_vars

----------------------------------------------------------------------------
(* Properties                                                               *)

\* A login call has returned a boolean and is the last call made.
LoginReturned == pc = "idle" /\ ret.op = "login" /\ ret.val \in {"True", "False"}

\* Every browser handle created so far has been quit exactly once.
AllHandlesQuit == \A h \in 1..Len(quits) : quits[h] = 1

\* An automation-engine error that no step of the attempt handles as part of
\* its own flow: a failure while loading or filling the form or submitting it,
\* an error while handling the alert, an error other than a timeout of the
\* marker wait, or an error other than a timeout in the popup dismissal outside
\* its close-button step (whose failures fall back to the escape key).
Fault(ev) ==
    \/ ev.form \in FormFaults
    \/ ev.alert \in {"shownErr", "waitErr"}
    \/ ev.marker = "err"
    \/ ev.overlay = "err"
    \/ ev.esc = "err"
    \/ ev.gone = "err"

\* C1: when every login attempt made on the manager shows an alert that is
\* dismissed, a login call makes exactly MAX_LOGIN_ATTEMPTS attempts (that many
\* navigations to the login page, and no login ever makes more), returns False
\* and leaves is_logged_in False; a close after it leaves no browser handle,
\* every created handle having been quit.
C1_AlwaysAlertExhaustsBound ==
    /\ navs <= MAX_LOGIN_ATTEMPTS
    /\ (LoginReturned /\ alwaysAlert) =>
          /\ navs = MAX_LOGIN_ATTEMPTS
          /\ alerts = MAX_LOGIN_ATTEMPTS
          /\ ret.val = "False"
          /\ ~is_logged_in
    /\ (ret.op = "close" /\ alwaysAlert) =>
          /\ driver = 0
          /\ wait = 0
          /\ ~is_logged_in
          /\ AllHandlesQuit

\* C1 witness: close has been called after a login whose ten attempts all
\* showed an alert.
C1_Witness ==
    /\ ret.op = "close"
    /\ ret.w = "quit"
    /\ alwaysAlert
    /\ navs = MAX_LOGIN_ATTEMPTS
    /\ alerts = MAX_LOGIN_ATTEMPTS

\* C2 (as claimed): when the last attempt k of a login call shows no alert and
\* the post-login marker appears (the k-1 attempts before it having failed
\* transiently), login returns True after exactly k attempts.
C2_SuccessAtAttemptK ==
    (LoginReturned /\ lastEv.alert = "none" /\ lastEv.marker = "appears") =>
        /\ ret.val = "True"
        /\ navs = intento
        /\ alerts + timeouts = intento - 1

\* C3 (as claimed): in an attempt with no alert and the marker present, login
\* returns True and sets is_logged_in, whatever the popup dismissal does.
C3_MarkerMeansSuccess ==
    (LoginReturned /\ lastEv.marker = "appears" /\ lastEv.overlay # "na") =>
        (ret.val = "True" /\ is_logged_in)

C5_FailedLoginUnauthenticated ==
    (LoginReturned /\ ret.val = "False") => ~is_logged_in

\* C6: navigate_to_section on an unauthenticated session returns False without
\* waiting for or clicking anything; authenticated, a timeout of the wait for
\* the link gives False; True is returned only after the link was clicked on an
\* authenticated session.
C6_NavigateRequiresSession ==
    ret.op = "navigate_to_section" =>
        /\ ~is_logged_in => (ret.val = "False" /\ ret.w = "na" /\ ~ret.clicked)
        /\ (is_logged_in /\ ret.w = "timeout") => ret.val = "False"
        /\ ret.val = "True" => (ret.clicked /\ is_logged_in /\ ret.w = "clickable")

\* C6 witness: navigate_to_section was refused on a manager that holds a
\* browser handle but whose login failed.
C6_Witness ==
    /\ ret.op = "navigate_to_section"
    /\ ret.val = "False"
    /\ ret.w = "na"
    /\ ~is_logged_in
    /\ driver # 0

\* C7 (as claimed): on a manager that holds a browser handle,
\* navigate_to_section and get_element never let an exception escape to their
\* caller, whatever failure the wait or the click meets.
C7_NoExceptionEscapesLookup ==
    (ret.op \in {"navigate_to_section", "get_element"} /\ driver # 0)
        => ret.val # "raised"

\* C8 (as claimed): login never raises to its caller.
C8_LoginNeverRaises ==
    ret.op = "login" => ret.val # "raised"

\* C9: after close has returned, driver and wait are None and is_logged_in is
\* False; a manager without a handle has no wait and no session, so a close on
\* it changes nothing; every handle that is no longer held has been quit
\* exactly once and the handle held has not been quit.
C9_CloseIdempotent ==
    /\ ret.op = "close" => (driver = 0 /\ wait = 0 /\ ~is_logged_in)
    /\ driver = 0 => (wait = 0 /\ ~is_logged_in)
    /\ \A h \in 1..Len(quits) : quits[h] = IF h = driver THEN 0 ELSE 1

\* C9 witness: close was called on a manager whose handle had already been
\* released by an earlier close.
C9_Witness ==
    /\ ret.op = "close"
    /\ ret.w = "noop"
    /\ Len(quits) >= 1
    /\ AllHandlesQuit

\* C10: when execute_download is not running the controller holds no handle
\* and is unauthenticated, every created handle has been quit, and every run
\* that entered the try block (any exit path but a rejected input) invoked
\* close() before it returned.
C10_DownloadReleasesHandle ==
    appPc = "idle" =>
        /\ driver = 0
        /\ wait = 0
        /\ ~is_logged_in
        /\ AllHandlesQuit
        /\ appOut \in {"badProfile", "loginFalse", "exception", "allOk", "someFailed"}
              => closedInRun

\* C10 witness: execute_download has returned after an exception in the module
\* loop, with the handle its login created released.
C10_Witness ==
    /\ appPc = "idle"
    /\ appOut = "exception"
    /\ modIdx >= 1
    /\ closedInRun
    /\ Len(quits) >= 1
    /\ driver = 0

----------------------------------------------------------------------------
(* execute_download: the module loop                                        *)

\* The position of a module key in the registration order
PosOf(key) == CHOOSE i \in 1..Len(ModuleKeys) : ModuleKeys[i] = key

\* The summary of lines 343-350 has been shown by the current (last) call.
SummaryShown == appOut \in {"allOk", "someFailed"}

\* C13: once login has succeeded, the modules run so far are the first
\* selected ones, each once and in registration order, whatever they returned;
\* when the summary is shown every selected module has run exactly once, the
\* success count is the number of runs that returned True, and the success
\* dialog is the one shown exactly when that count is the number of selected
\* modules.
C13_EverySelectedModuleRunsOnce ==
    /\ appPc = "modules" =>
          /\ Len(ranMods) = modIdx - 1
          /\ \A i \in 1..Len(ranMods) : ranMods[i].key = selected[i]
    /\ SummaryShown =>
          /\ Len(ranMods) = Len(selected)
          /\ \A i \in 1..Len(ranMods) : ranMods[i].key = selected[i]
          /\ \A i, j \in 1..Len(ranMods) :
                i < j => PosOf(ranMods[i].key) < PosOf(ranMods[j].key)
          /\ success_count = Cardinality({i \in 1..Len(ranMods) : ranMods[i].ok})
          /\ (appOut = "allOk") <=> (success_count = Len(selected))

\* Two modules were selected, the first returned False, the second still ran
\* and returned True, and the warning summary was shown.
C13_Witness ==
    /\ SummaryShown
    /\ Len(selected) = 2
    /\ Len(ranMods) = 2
    /\ ~ranMods[1].ok
    /\ ranMods[2].ok
    /\ success_count = 1
    /\ appOut = "someFailed"

----------------------------------------------------------------------------
(* DataStorage: the credential file under save_connection and               *)
(* delete_connection                                                        *)

\* The identifiers, secrets and profile codes passed to the store. They are
\* stripped, as execute_download strips what it reads from the form; some
\* contain the delimiter.
Users == {<<"1">>, <<"2">>, <<"1", ",", "2">>}
Claves == {<<"p">>, <<"q">>, <<"p", ",">>}
Perfiles == {<<"1">>, <<"2">>}

\* A string without the delimiter
NoComma(s) == \A i \in 1..Len(s) : s[i] # ","

\* The number of delimiters in a string
CommaCount(s) == Cardinality({i \in 1..Len(s) : s[i] = ","})

\* The program starts without a credential file.
StoreInit == AppInit

\* DataStorage.save_connection(u, c, p)
Save ==
    /\ \E u \in Users, c \in Claves, p \in Perfiles :
          /\ connFile' = SaveConnection(connFile, u, c, p)
          /\ storeOp' = [op |-> "save", usuario |-> u, clave |-> c, perfil |-> p,
                         result |-> FALSE, before |-> connFile]
    /\ UNCHANGED parseOp
    /\ UNCHANGED <<mgrVars, appVars, fileVars, modVars, colVars, matOp>>

\* DataStorage.delete_connection(u)
Delete ==
    /\ \E u \in Users :
          LET d == DeleteConnection(connFile, u) IN
          /\ connFile' = d.file
          /\ storeOp' = [op |-> "delete", usuario |-> u, clave |-> <<>>, perfil |-> <<>>,
                         result |-> d.result, before |-> connFile]
    /\ UNCHANGED parseOp
    /\ UNCHANGED <<mgrVars, appVars, fileVars, modVars, colVars, matOp>>

StoreNext ==
    \/ Save
    \/ Delete

StoreSpec == StoreInit /\ [][StoreNext]_vars

\* The records before and after the last call, and the record it was given
OldRecords == LoadConnections(storeOp.before)
NewRecords == LoadConnections(connFile)
GivenRecord == ConnectionData(storeOp.usuario, storeOp.clave, storeOp.perfil)

\* C14: a save of comma-free fields replaces the record of that identifier
\* in place, every other record and the order unchanged, or, when there is
\* none, appends the record as the last one.
C14_SaveIsUpsert ==
    (/\ storeOp.op = "save"
     /\ NoComma(storeOp.usuario) /\ NoComma(storeOp.clave) /\ NoComma(storeOp.perfil))
    => IF IndexesOf(OldRecords, storeOp.usuario) # {}
       THEN /\ Len(NewRecords) = Len(OldRecords)
            /\ \A i \in 1..Len(OldRecords) :
                  NewRecords[i] = IF OldRecords[i].usuario = storeOp.usuario
                                  THEN GivenRecord ELSE OldRecords[i]
       ELSE NewRecords = Append(OldRecords, GivenRecord)

\* The identifier saved first with one secret and profile is saved again with
\* other ones while another record follows it: it is still first, with the
\* new secret and profile, and is the only record of that identifier.
C14_Witness ==
    /\ storeOp.op = "save"
    /\ Len(OldRecords) = 2
    /\ OldRecords[1] = ConnectionData(<<"1">>, <<"p">>, <<"1">>)
    /\ GivenRecord = ConnectionData(<<"1">>, <<"q">>, <<"2">>)
    /\ NewRecords = <<GivenRecord, OldRecords[2]>>

\* C15: load_connections never returns two records with the same usuario.
C15_OneRecordPerUsuario ==
    \A i, j \in 1..Len(NewRecords) :
        NewRecords[i].usuario = NewRecords[j].usuario => i = j

\* An identifier that already had a record is saved again, in a store that
\* holds two records.
C15_Witness ==
    /\ storeOp.op = "save"
    /\ IndexesOf(OldRecords, storeOp.usuario) # {}
    /\ OldRecords[Min(IndexesOf(OldRecords, storeOp.usuario))] # GivenRecord
    /\ Len(NewRecords) = 2

\* C16: a delete of an identifier without a record returns False and leaves
\* the file as it was; a delete of an identifier with a record returns True,
\* removes one record and keeps the others in their order.
C16_DeleteRemovesOnlyThatRecord ==
    storeOp.op = "delete"
    => IF IndexesOf(OldRecords, storeOp.usuario) = {}
       THEN /\ ~storeOp.result
            /\ connFile = storeOp.before
       ELSE /\ storeOp.result
            /\ Len(NewRecords) = Len(OldRecords) - 1
            /\ NewRecords = SelectSeq(OldRecords, LAMBDA x : x.usuario # storeOp.usuario)

\* The first of two records is deleted and the second is what remains.
C16_Witness ==
    /\ storeOp.op = "delete"
    /\ storeOp.result
    /\ Len(OldRecords) = 2
    /\ OldRecords[1].usuario = storeOp.usuario
    /\ NewRecords = <<OldRecords[2]>>

\* A delete of an identifier without a record, on a store that holds a
\* record of another identifier.
C16_WitnessAbsent ==
    /\ storeOp.op = "delete"
    /\ ~storeOp.result
    /\ Len(OldRecords) = 1

----------------------------------------------------------------------------
(* DataStorage: load_connections and parse_connection_string on arbitrary    *)
(* text                                                                     *)

\* The largest number of lines of a credential file
MaxLines == 2

\* Lines a credential file may hold: records, a record with surrounding
\* whitespace, a blank and a whitespace-only line, and lines with one, two
\* and four fields.
FileLines ==
    { <<"1", ",", "p", ",", "1">>,
      <<"2", ",", "q", ",", "2">>,
      <<" ", "1", ",", "p", ",", "1", " ">>,
      <<>>,
      <<" ">>,
      <<"1">>,
      <<"1", ",", "p">>,
      <<"1", ",", "p", ",", "1", ",", "x">> }

\* The credential files of at most MaxLines lines, and no file at all
Files ==
    {[exists |-> FALSE, lines |-> <<>>]} \cup
    UNION {{[exists |-> TRUE, lines |-> l] : l \in [1..n -> FileLines]} : n \in 0..MaxLines}

\* Field values of a record: empty, plain, with a space, with the delimiter
Fields == {<<>>, <<"1">>, <<"p", " ">>, <<"p", ",">>}

\* Strings handed to parse_connection_string
ParseInputs == FileLines \cup {<<",">>, <<",", ",", ",">>}

ParseInit ==
    /\ MgrInit
    /\ appPc = "idle"
    /\ selected = <<>>
    /\ modIdx = 0
    /\ success_count = 0
    /\ appOut = "none"
    /\ closedInRun = FALSE
    /\ ranMods = <<>>
    /\ loginRet = "none"
    /\ connFile \in Files
    /\ storeOp = NoStoreOp
    /\ parseOp = NoParseOp
    /\ FileIdle
    /\ ModIdle
    /\ ColIdle
    /\ MatIdle

\* DataStorage.load_connections()
Load ==
    /\ parseOp' = [op |-> "load", input |-> <<>>, conn |-> None,
                   result |-> LoadConnections(connFile)]
    /\ UNCHANGED <<connFile, storeOp>>
    /\ UNCHANGED <<mgrVars, appVars, fileVars, modVars, colVars, matOp>>

\* DataStorage.parse_connection_string(s)
Parse ==
    /\ \E s \in ParseInputs :
          parseOp' = [op |-> "parse", input |-> s, conn |-> None,
                      result |-> ParseConnectionString(s)]
    /\ UNCHANGED <<connFile, storeOp>>
    /\ UNCHANGED <<mgrVars, appVars, fileVars, modVars, colVars, matOp>>

\* DataStorage.parse_connection_string(str(conn)): the string shown for a
\* record is parsed back when it is selected.
ParseStr ==
    /\ \E u \in Fields, c \in Fields, p \in Fields :
          LET conn == ConnectionData(u, c, p) IN
          parseOp' = [op |-> "parseStr", input |-> Str(conn), conn |-> conn,
                      result |-> ParseConnectionString(Str(conn))]
    /\ UNCHANGED <<connFile, storeOp>>
    /\ UNCHANGED <<mgrVars, appVars, fileVars, modVars, colVars, matOp>>

ParseNext ==
    \/ Load
    \/ Parse
    \/ ParseStr

ParseSpec == ParseInit /\ [][ParseNext]_vars

\* C17: a record whose fields hold no comma is what parsing its string
\* gives back, and a string that does not have exactly three comma-separated
\* fields parses to None.
C17_ParseRoundTrip ==
    /\ (/\ parseOp.op = "parseStr"
        /\ NoComma(parseOp.conn.usuario)
        /\ NoComma(parseOp.conn.clave)
        /\ NoComma(parseOp.conn.perfil))
       => parseOp.result = parseOp.conn
    /\ (parseOp.op \in {"parse", "parseStr"} /\ CommaCount(parseOp.input) # 2)
       => parseOp.result = None

\* A record with an empty field and a field with a space came back unchanged.
C17_Witness ==
    /\ parseOp.op = "parseStr"
    /\ parseOp.conn = ConnectionData(<<"1">>, <<"p", " ">>, <<>>)
    /\ parseOp.result = parseOp.conn

\* A string of four fields parsed to None.
C17_WitnessMalformed ==
    /\ parseOp.op = "parse"
    /\ CommaCount(parseOp.input) = 3
    /\ parseOp.result = None

\* The lines of the file that have three comma-separated fields, in file order
ThreeFieldLines == SelectSeq(connFile.lines, LAMBDA l : CommaCount(l) = 2)

\* C18: without a file load_connections returns the empty list; with one it
\* returns one record per line of three comma-separated fields, in file
\* order, and nothing for blank lines and lines of another field count.
C18_LoadKeepsThreeFieldLines ==
    parseOp.op = "load"
    => IF ~connFile.exists
       THEN parseOp.result = <<>>
       ELSE /\ Len(parseOp.result) = Len(ThreeFieldLines)
            /\ \A i \in 1..Len(ThreeFieldLines) :
                  /\ Str(parseOp.result[i]) = Strip(ThreeFieldLines[i])
                  /\ NoComma(parseOp.result[i].usuario)
                  /\ NoComma(parseOp.result[i].clave)
                  /\ NoComma(parseOp.result[i].perfil)

\* A file of a four-field line followed by a record was loaded: the one
\* record is what came back.
C18_Witness ==
    /\ parseOp.op = "load"
    /\ connFile.exists
    /\ Len(connFile.lines) = 2
    /\ CommaCount(connFile.lines[1]) = 3
    /\ parseOp.result = <<ConnectionData(<<"2">>, <<"q">>, <<"2">>)>>

\* Without a file the empty list came back.
C18_WitnessAbsent ==
    /\ parseOp.op = "load"
    /\ ~connFile.exists
    /\ parseOp.result = <<>>

----------------------------------------------------------------------------
(* generate_unique_filename on arbitrary folders                            *)

\* The largest counter of a file already in the folder
MaxCounter == 3

\* The folders whose files are exports of the base names, numbered up to
\* MaxCounter, with or without gaps
Dirs ==
    SUBSET {[name |-> FileName(b, k, Ext), id |-> 0] : b \in Bases, k \in 1..MaxCounter}

GenInit ==
    /\ MgrInit
    /\ appPc = "idle"
    /\ selected = <<>>
    /\ modIdx = 0
    /\ success_count = 0
    /\ appOut = "none"
    /\ closedInRun = FALSE
    /\ ranMods = <<>>
    /\ loginRet = "none"
    /\ StoreIdle
    /\ ModIdle
    /\ ColIdle
    /\ MatIdle
    /\ matDir \in Dirs
    /\ original = 0
    /\ pending = {}
    /\ exportNo = 0
    /\ filePc = "idle"
    /\ elapsed = 0
    /\ fileOp = NoFileOp

\* generate_unique_filename(matricula_folder, base_name, ".xls")
Generate ==
    /\ \E b \in Bases :
          fileOp' = [NoFileOp EXCEPT !.op = "generate", !.base = b,
                                     !.dirBefore = matDir, !.dirAfter = matDir,
                                     !.path = GenerateUniqueFilename(Names(matDir), b, Ext)]
    /\ UNCHANGED <<matDir, original, pending, exportNo, filePc, elapsed>>
    /\ UNCHANGED <<mgrVars, appVars, storeVars, modVars, colVars, matOp>>

GenNext == Generate

GenSpec == GenInit /\ [][GenNext]_vars

\* C19: the path returned is base_k ext for the smallest k >= 1 whose path
\* does not exist: it is not in the folder, and every smaller counter is.
C19_SmallestFreeCounter ==
    fileOp.op = "generate"
    => /\ fileOp.path \notin Names(fileOp.dirAfter)
       /\ \E k \in 1..(Cardinality(fileOp.dirBefore) + 1) :
             /\ fileOp.path = FileName(fileOp.base, k, Ext)
             /\ \A j \in 1..(k - 1) :
                   FileName(fileOp.base, j, Ext) \in Names(fileOp.dirBefore)

\* With base_1 .. base_MaxCounter all present the path is base_(MaxCounter+1).
C19_Witness ==
    /\ fileOp.op = "generate"
    /\ \A k \in 1..MaxCounter : FileName(fileOp.base, k, Ext) \in Names(fileOp.dirBefore)
    /\ fileOp.path = FileName(fileOp.base, MaxCounter + 1, Ext)

\* With no file of the base present, in a folder that is not empty, the
\* path is base_1.
C19_WitnessNone ==
    /\ fileOp.op = "generate"
    /\ \A k \in 1..MaxCounter : FileName(fileOp.base, k, Ext) \notin Names(fileOp.dirBefore)
    /\ fileOp.dirBefore # {}
    /\ fileOp.path = FileName(fileOp.base, 1, Ext)

----------------------------------------------------------------------------
(* MatriculaModule._wait_and_rename_file                                    *)

\* _wait_and_rename_file, line 109: the seconds the poll loop waits
PollSeconds == 30

\* The largest number of roster exports
MaxExports == 2

FileInit ==
    /\ MgrInit
    /\ appPc = "idle"
    /\ selected = <<>>
    /\ modIdx = 0
    /\ success_count = 0
    /\ appOut = "none"
    /\ closedInRun = FALSE
    /\ ranMods = <<>>
    /\ loginRet = "none"
    /\ StoreIdle
    /\ ModIdle
    /\ ColIdle
    /\ MatIdle
    /\ FileIdle

\* execute has asked the site for the export (line 78) and calls
\* _wait_and_rename_file (lines 101-109): the download is now the browser's
\* to write, and the poll loop starts.
WaitAndRenameStart ==
    /\ filePc = "idle"
    /\ exportNo < MaxExports
    /\ exportNo' = exportNo + 1
    /\ pending' = pending \cup {exportNo + 1}
    /\ filePc' = "poll"
    /\ elapsed' = 0
    /\ \E b \in Bases :
          fileOp' = [NoFileOp EXCEPT !.op = "call", !.base = b,
                                     !.dirBefore = matDir, !.dirAfter = matDir]
    /\ UNCHANGED <<matDir, original>>
    /\ UNCHANGED <<mgrVars, appVars, storeVars, modVars, colVars, matOp>>

\* The browser finishes a download at a moment of its own: it writes
\* nomina_excel.xls, or, when that name is taken, a file of another name.
DownloadArrives ==
    /\ \E n \in pending :
          /\ pending' = pending \ {n}
          /\ original' = IF original = 0 THEN n ELSE original
    /\ UNCHANGED <<matDir, exportNo, filePc, elapsed, fileOp>>
    /\ UNCHANGED <<mgrVars, appVars, storeVars, modVars, colVars, matOp>>

\* _wait_and_rename_file, lines 110-132: one test of the poll loop. The file
\* is there: it is moved under a generated name and the call returns True.
\* It is not: the call returns False once the time is over, else it sleeps a
\* second.
WaitAndRenamePoll ==
    /\ filePc = "poll"
    /\ IF original # 0
       THEN LET path == GenerateUniqueFilename(Names(matDir), fileOp.base, Ext)
                after == MoveFile(matDir, original, path)
            IN /\ matDir' = after.dir
               /\ original' = after.orig
               /\ filePc' = "idle"
               /\ fileOp' = [fileOp EXCEPT !.op = "wait", !.ret = TRUE, !.path = path,
                                           !.moved = original, !.dirAfter = after.dir,
                                           !.origAfter = after.orig, !.polls = elapsed]
               /\ UNCHANGED elapsed
       ELSE IF elapsed > PollSeconds
       THEN /\ filePc' = "idle"
            /\ fileOp' = [fileOp EXCEPT !.op = "wait", !.ret = FALSE, !.polls = elapsed]
            /\ UNCHANGED <<matDir, original, elapsed>>
       ELSE /\ elapsed' = elapsed + 1
            /\ UNCHANGED <<matDir, original, filePc, fileOp>>
    /\ UNCHANGED <<pending, exportNo>>
    /\ UNCHANGED <<mgrVars, appVars, storeVars, modVars, colVars, matOp>>

FileNext ==
    \/ WaitAndRenameStart
    \/ DownloadArrives
    \/ WaitAndRenamePoll

FileSpec == FileInit /\ [][FileNext]_vars

C20_WitnessTimeout ==
    /\ fileOp.op = "wait"
    /\ ~fileOp.ret
    /\ matDir = fileOp.dirBefore

----------------------------------------------------------------------------
(* BaseModule.run                                                           *)

\* The largest number of run calls
MaxRuns == 2

\* The year handed to run: missing, empty, all digits, or not
Years ==
    {None, Text(<<>>), Text(<<"2", "0">>), Text(<<"2", "5">>),
     Text(<<"2", "x">>), Text(<<" ">>)}

ModInit ==
    /\ MgrInit
    /\ appPc = "idle"
    /\ selected = <<>>
    /\ modIdx = 0
    /\ success_count = 0
    /\ appOut = "none"
    /\ closedInRun = FALSE
    /\ ranMods = <<>>
    /\ loginRet = "none"
    /\ IoInit

\* run(usuario, **kwargs) is called on a registered module.
RunStart ==
    /\ modPc = "idle"
    /\ runs < MaxRuns
    /\ \E i \in 1..Len(ModuleKeys), y \in Years :
          modArgs' = [module |-> ModuleKeys[i], year |-> y]
    /\ modPc' = "pre"
    /\ runLog' = <<>>
    /\ runRet' = "pending"
    /\ runs' = runs + 1
    /\ UNCHANGED <<mgrVars, appVars, storeVars, fileVars, colVars, matOp>>

\* run, lines 108-111 and 121-124: pre_execute logs the start and validates
\* the parameters; a False result ends the run with False. raises: the
\* pre_execute of the module raises instead.
PreExecute ==
    /\ modPc = "pre"
    /\ \E raises \in BOOLEAN :
          IF raises
          THEN LET h == RunExcept(Append(runLog, "preRaises")) IN
               /\ runLog' = h.log
               /\ runRet' = h.ret
               /\ modPc' = "idle"
          ELSE IF ValidateParameters(RequiresYear(modArgs.module), modArgs.year)
          THEN /\ runLog' = runLog \o <<"start">>
               /\ modPc' = "exec"
               /\ UNCHANGED runRet
          ELSE /\ runLog' = runLog \o <<"start", "invalid">>
               /\ runRet' = "False"
               /\ modPc' = "idle"
    /\ UNCHANGED <<modArgs, runs>>
    /\ UNCHANGED <<mgrVars, appVars, storeVars, fileVars, colVars, matOp>>

\* run, lines 113-124: execute returns True or False, post_execute logs the
\* outcome and run returns it; or execute raises and the handler runs.
Execute ==
    /\ modPc = "exec"
    /\ \E r \in {"True", "False", "raises"} :
          IF r = "raises"
          THEN LET h == RunExcept(Append(runLog, "executeRaises")) IN
               /\ runLog' = h.log
               /\ runRet' = h.ret
          ELSE /\ runLog' = runLog \o <<"execute" \o r, "post" \o r>>
               /\ runRet' = r
    /\ modPc' = "idle"
    /\ UNCHANGED <<modArgs, runs>>
    /\ UNCHANGED <<mgrVars, appVars, storeVars, fileVars, colVars, matOp>>

ModNext ==
    \/ RunStart
    \/ PreExecute
    \/ Execute

ModSpec == ModInit /\ [][ModNext]_vars

\* The log of the current (last) run holds the entry e.
Logged(e) == \E i \in 1..Len(runLog) : runLog[i] = e

\* The last run has returned or raised.
RunEnded == modPc = "idle" /\ runs > 0

\* execute was invoked by the current (last) run.
ExecuteInvoked == Logged("executeTrue") \/ Logged("executeFalse") \/ Logged("executeRaises")

\* C11: no run ends by raising; a run in which pre_execute or execute raised
\* logged the error and returned False; a run that returned True had execute
\* return True.
C11_RunNeverPropagates ==
    /\ runRet # "raised"
    /\ RunEnded => runRet \in {"True", "False"}
    /\ (RunEnded /\ (Logged("preRaises") \/ Logged("executeRaises")))
       => (runRet = "False" /\ Logged("error"))
    /\ (RunEnded /\ runRet = "True") => Logged("executeTrue")

\* execute raised, the error was logged and run returned False.
C11_Witness ==
    /\ RunEnded
    /\ Logged("executeRaises")
    /\ Logged("error")
    /\ runRet = "False"

\* pre_execute raised and run returned False without invoking execute.
C11_WitnessPre ==
    /\ RunEnded
    /\ Logged("preRaises")
    /\ ~ExecuteInvoked
    /\ runRet = "False"

\* The year is missing, empty or not all digits.
BadYear(year) ==
    \/ year = None
    \/ year.text = <<>>
    \/ \E i \in 1..Len(year.text) : year.text[i] \notin {DigitChars[d] : d \in 1..Len(DigitChars)}

\* C12: a run of a module that requires a year, given a year that is missing,
\* empty or not all digits, returns False and never invokes execute; the
\* validation of a module that requires no year passes whatever the year.
C12_BadYearNeverExecutes ==
    /\ (RequiresYear(modArgs.module) /\ BadYear(modArgs.year))
       => /\ ~ExecuteInvoked
          /\ modPc # "exec"
          /\ RunEnded => runRet = "False"
    /\ (modArgs.module # "none" /\ ~RequiresYear(modArgs.module))
       => /\ ~Logged("invalid")
          /\ (RunEnded /\ ~Logged("preRaises")) => ExecuteInvoked

\* The roster export was run with a year that is not all digits and returned
\* False after the start was logged, execute not invoked.
C12_Witness ==
    /\ RunEnded
    /\ modArgs = [module |-> "matricula", year |-> Text(<<"2", "x">>)]
    /\ Logged("start")
    /\ Logged("invalid")
    /\ ~ExecuteInvoked
    /\ runRet = "False"

\* The module that requires no year was run without one and execute was
\* invoked.
C12_WitnessNoYear ==
    /\ RunEnded
    /\ modArgs = [module |-> "datos_colegio", year |-> None]
    /\ ExecuteInvoked

----------------------------------------------------------------------------
(* BaseModule.run: the order of the phases                                  *)

\* The positions of the log of the current (last) run that hold one of the
\* entries es
Positions(es) == {i \in 1..Len(runLog) : runLog[i] \in es}

ExecuteEntries == {"executeTrue", "executeFalse", "executeRaises"}
PostEntries == {"postTrue", "postFalse"}

\* C23: in a run that has ended, the start comes before execute and execute
\* before post_execute, execute is invoked at most once, and a run that
\* logged its start logged exactly one post-execute outcome, the one that
\* run returned.
C23_ThreePhaseRun ==
    RunEnded
    => /\ \A i \in Positions({"start", "preRaises"}), j \in Positions(ExecuteEntries) : i < j
       /\ \A i \in Positions(ExecuteEntries), j \in Positions(PostEntries) : i < j
       /\ Cardinality(Positions(ExecuteEntries)) <= 1
       /\ Logged("start")
          => /\ Cardinality(Positions(PostEntries)) = 1
             /\ Logged("post" \o runRet)

----------------------------------------------------------------------------
(* execute_download: modules and the login                                  *)

\* C24: every module run happens in an invocation whose login has returned
\* True and that has not yet called close; an invocation whose login was not
\* called, returned False or raised has run no module.
C24_ModulesOnlyAfterLogin ==
    [][/\ (ranMods' # ranMods /\ ranMods' # <<>>)
          => (loginRet = "True" /\ ~closedInRun /\ ~closedInRun')
       /\ loginRet' # "True" => ranMods' = <<>>]_vars

\* Both modules were run after a login that returned True, and close was
\* called afterwards.
C24_Witness ==
    /\ loginRet = "True"
    /\ Len(ranMods) = 2
    /\ closedInRun
    /\ appPc = "idle"

\* The login returned False and the invocation ended without a module run.
C24_WitnessLoginFalse ==
    /\ loginRet = "False"
    /\ ranMods = <<>>
    /\ closedInRun
    /\ appPc = "idle"

----------------------------------------------------------------------------
(* SeleniumManager: the browser handle over login and close calls           *)

\* The handles created and not yet quit
AliveHandles == {h \in 1..Len(quits) : quits[h] = 0}

\* C27: a handle is only created by a login call made while the manager
\* holds none, a login made while it holds one keeps that handle, at most
\* one handle is alive and it is the one the manager holds, and
\* is_logged_in implies that the manager holds a handle.
C27_SessionInvariants ==
    /\ [](/\ Cardinality(AliveHandles) <= 1
          /\ AliveHandles = IF driver = 0 THEN {} ELSE {driver}
          /\ is_logged_in => driver # 0)
    /\ [][/\ Len(quits') > Len(quits)
             => (driver = 0 /\ ret'.op = "login" /\ driver' = Len(quits') /\
                 Len(quits') = Len(quits) + 1)
          /\ (driver # 0 /\ ret'.op = "login") => driver' = driver]_vars

\* After login, close and login again the manager holds the second handle,
\* authenticated, and the first one is quit.
C27_Witness ==
    /\ Len(quits) = 2
    /\ quits[1] = 1
    /\ driver = 2
    /\ AliveHandles = {2}
    /\ is_logged_in

\* Two logins without a close in between were made on the one handle.
C27_WitnessReuse ==
    /\ Len(quits) = 1
    /\ driver = 1
    /\ startLogged
    /\ ret.op = "login"
    /\ ret.val = "True"

----------------------------------------------------------------------------
(* Roster exports and late downloads                                        *)

\* C28: the file an export moves is the download that this same export
\* requested, never one left at the download location by an earlier export.
C28_ExportMovesItsOwnDownload ==
    (fileOp.op = "wait" /\ fileOp.ret) => fileOp.moved = exportNo

----------------------------------------------------------------------------
(* DataStorage: lines that are not records                                  *)

\* The last call wrote the file: a save, or a delete that returned True.
Rewritten == storeOp.op = "save" \/ (storeOp.op = "delete" /\ storeOp.result)

\* C29: after a write the only line of the file that does not have three
\* fields is, at most, the line of the credential just saved; a credential
\* saved with a comma in its identifier or secret is not returned by
\* load_connections nor by find_connection, while the records of the other
\* identifiers are returned as before, in order.
C29_MalformedLinesDropped ==
    /\ Rewritten
       => /\ Cardinality({i \in 1..Len(connFile.lines) :
                             CommaCount(connFile.lines[i]) # 2}) <= 1
          /\ \A i \in 1..Len(connFile.lines) :
                CommaCount(connFile.lines[i]) # 2
                => (storeOp.op = "save" /\ connFile.lines[i] = Str(GivenRecord))
    /\ (storeOp.op = "save" /\ ~(NoComma(storeOp.usuario) /\ NoComma(storeOp.clave)))
       => /\ \A i \in 1..Len(NewRecords) : NewRecords[i] # GivenRecord
          /\ FindConnection(connFile, storeOp.usuario) = None
          /\ NewRecords = SelectSeq(OldRecords, LAMBDA x : x.usuario # storeOp.usuario)

\* A store that held a record and the line of a credential with a comma was
\* written by the save of another identifier: the line is gone and both
\* records are returned.
C29_Witness ==
    /\ storeOp.op = "save"
    /\ Len(storeOp.before.lines) = 2
    /\ CommaCount(storeOp.before.lines[2]) = 3
    /\ Len(OldRecords) = 1
    /\ NewRecords = <<OldRecords[1], GivenRecord>>
    /\ \A i \in 1..Len(connFile.lines) : CommaCount(connFile.lines[i]) = 2

\* A credential with a comma in its secret was saved: load_connections does
\* not return it and the other record is returned.
C29_WitnessNotReturned ==
    /\ storeOp.op = "save"
    /\ ~NoComma(storeOp.clave)
    /\ Len(connFile.lines) = 2
    /\ Len(NewRecords) = 1
    /\ FindConnection(connFile, storeOp.usuario) = None

----------------------------------------------------------------------------
(* execute_download: the profile and the saved connection                   *)

\* Texts that may be offered as a profile code
ProfileCandidates ==
    {<<>>, <<"0">>, <<"1">>, <<"2">>, <<"3">>, <<"4">>, <<"5">>, <<"1", "2">>,
     <<" ", "1">>, <<"1", " ">>}

\* The current (last) invocation has called save_connection.
SavedInRun == appOut \in {"running", "loginFalse", "allOk", "someFailed", "exception"}

\* C22: is_valid_profile holds of exactly the codes of the four profiles; an
\* invocation that rejected the profile has saved nothing and called no
\* login, and every save and every login was given one of the four codes.
C22_OnlyTheFourProfileCodes ==
    /\ \A v \in ProfileCandidates :
          IsValidProfile(v) <=> (\E i \in 1..4 : AVAILABLE_PROFILES[i].key = v)
    /\ Len(AVAILABLE_PROFILES) = 4
    /\ appOut = "badProfile" => (loginRet = "none" /\ ranMods = <<>>)
    /\ storeOp.op = "save" => IsValidProfile(storeOp.perfil)
    /\ loginRet # "none" => (SavedInRun /\ storeOp.op = "save" /\ IsValidProfile(storeOp.perfil))
    /\ \A i \in 1..Len(connFile.lines) :
          \E v \in {<<"1">>, <<"2">>, <<"3">>, <<"4">>} :
             Split(connFile.lines[i])[Len(Split(connFile.lines[i]))] = v

\* A text that is no profile's name was rejected: nothing is stored and no
\* login was made, and the browser was closed.
C22_Witness ==
    /\ appOut = "badProfile"
    /\ appPc = "idle"
    /\ closedInRun
    /\ loginRet = "none"
    /\ ~connFile.exists

\* A profile's name was submitted: its code was saved and login was called.
C22_WitnessValid ==
    /\ appOut = "loginFalse"
    /\ storeOp.perfil = <<"2">>
    /\ loginRet = "False"

C25_WitnessBeforeLogin ==
    /\ appPc = "callLogin"
    /\ loginRet = "none"
    /\ NewRecords = <<ConnectionData(<<"1">>, <<"p">>, <<"2">>)>>

----------------------------------------------------------------------------
(* DatosColegioModule.execute                                               *)

\* The pages: every simple value present, and at most one part of the phone
\* or of the mobile empty
Pages ==
    {FullPage,
     [FullPage EXCEPT !.area = <<>>], [FullPage EXCEPT !.numero = <<>>],
     [FullPage EXCEPT !.prefijo = <<>>], [FullPage EXCEPT !.celular = <<>>]}

\* The extension and the base name of a school export
ExtXlsx == <<".", "x", "l", "s", "x">>
ColegioBase == <<"c">>

DatosInit ==
    /\ MgrInit
    /\ appPc = "idle"
    /\ selected = <<>>
    /\ modIdx = 0
    /\ success_count = 0
    /\ appOut = "none"
    /\ closedInRun = FALSE
    /\ ranMods = <<>>
    /\ loginRet = "none"
    /\ StoreIdle
    /\ FileIdle
    /\ ModIdle
    /\ MatIdle
    /\ fails \in SUBSET {DatosKeys[i] : i \in 1..Len(DatosKeys)}
    /\ page \in Pages
    /\ colDir = {}
    /\ colOp = NoColOp

\* DatosColegioModule.execute(usuario) on the page drawn: nav is what
\* navigate_to_section does, wait what the wait of line 42 does.
DatosExecute ==
    /\ colOp.op = "none"
    /\ \E nav \in {"True", "False", "raises"}, w \in {"ok", "raises"} :
          IF nav = "True" /\ w = "ok"
          THEN LET datos == ExtractSchoolData(fails, page)
                   path == GenerateUniqueFilename(Names(colDir), ColegioBase, ExtXlsx)
               IN /\ colDir' = colDir \cup {[name |-> path, rows |-> SheetRows(<<"1">>, datos)]}
                  /\ colOp' = [op |-> "execute", nav |-> nav, wait |-> w, usuario |-> <<"1">>,
                               datos |-> datos, path |-> path, dirBefore |-> colDir,
                               ret |-> TRUE]
          ELSE /\ colOp' = [NoColOp EXCEPT !.op = "execute", !.nav = nav, !.usuario = <<"1">>,
                                           !.wait = IF nav = "True" THEN w ELSE "na"]
               /\ UNCHANGED colDir
    /\ UNCHANGED <<fails, page>>
    /\ UNCHANGED <<mgrVars, appVars, storeVars, fileVars, modVars, matOp>>

DatosNext == DatosExecute

DatosSpec == DatosInit /\ [][DatosNext]_vars

\* The page was reached and the extraction made.
Extracted == colOp.op = "execute" /\ colOp.nav = "True" /\ colOp.wait = "ok"

\* The value extracted for a key
DatosValue(key) ==
    LET i == CHOOSE j \in 1..Len(colOp.datos) : colOp.datos[j].key = key
    IN colOp.datos[i].value

C21_WitnessAllFail ==
    /\ Extracted
    /\ Cardinality(fails) = 14
    /\ \A i \in 1..14 : colOp.datos[i].value = <<>>
    /\ colOp.ret

----------------------------------------------------------------------------
(* MatriculaModule.execute                                                  *)

\* The steps of a roster export, in the order of the code
ExportSteps ==
    <<"navigate", "clickExcel", "exportPage", "selectYear", "clickDownload", "moved">>

\* What the browser can do during execute (lines 44-84): navigate_to_section
\* returns True or False or raises; get_element returns the element or None
\* or raises; a click, the wait for the export page, select_by_value and
\* _handle_alerts end or raise; the download arrives during the poll window
\* or never. A step is only reached when the steps before it let execute go
\* on.
MatEnvs ==
    LET stop(ev, f, v) == [ev EXCEPT ![f] = v]
        e1 == [NoMatEv EXCEPT !.nav = "True"]
        e2 == [e1 EXCEPT !.excel = "found"]
        e3 == [e2 EXCEPT !.excelClick = "ok"]
        e4 == [e3 EXCEPT !.url = "ok"]
        e6 == {[e4 EXCEPT !.yearSel = "None"],
               [e4 EXCEPT !.yearSel = "found", !.select = "ok"]}
        e7 == {[e EXCEPT !.dl = "found"] : e \in e6}
        e8 == {[e EXCEPT !.dlClick = "ok"] : e \in e7}
        e9 == {[e EXCEPT !.alert = "ok"] : e \in e8}
    IN {stop(NoMatEv, "nav", v) : v \in {"False", "raises"}}
       \cup {stop(e1, "excel", v) : v \in {"None", "raises"}}
       \cup {stop(e2, "excelClick", "raises"), stop(e3, "url", "raises"),
             stop(e4, "yearSel", "raises"),
             [e4 EXCEPT !.yearSel = "found", !.select = "raises"]}
       \cup {stop(e, "dl", v) : e \in e6, v \in {"None", "raises"}}
       \cup {stop(e, "dlClick", "raises") : e \in e7}
       \cup {stop(e, "alert", "raises") : e \in e8}
       \cup {stop(e, "file", v) : e \in e9, v \in {"arrives", "never"}}

\* MatriculaModule.execute, lines 44-88: the steps performed, in order, and
\* the result
MatriculaResult(ev) ==
    LET out(done, res) == [steps |-> done, ret |-> res]
        s1 == <<"navigate">>
        s2 == Append(s1, "clickExcel")
        s3 == Append(s2, "exportPage")
        s4 == IF ev.yearSel = "found" THEN Append(s3, "selectYear") ELSE s3
        s5 == Append(s4, "clickDownload")
    IN IF ev.nav # "True" THEN out(<<>>, FALSE)
       ELSE IF ev.excel # "found" THEN out(s1, FALSE)
       ELSE IF ev.excelClick # "ok" THEN out(s1, FALSE)
       ELSE IF ev.url # "ok" THEN out(s2, FALSE)
       ELSE IF ev.yearSel = "raises" THEN out(s3, FALSE)
       ELSE IF ev.yearSel = "found" /\ ev.select # "ok" THEN out(s3, FALSE)
       ELSE IF ev.dl # "found" THEN out(s4, FALSE)
       ELSE IF ev.dlClick # "ok" THEN out(s4, FALSE)
       ELSE IF ev.alert # "ok" THEN out(s5, FALSE)
       ELSE IF ev.file = "arrives" THEN out(Append(s5, "moved"), TRUE)
       ELSE out(s5, FALSE)

MatInit ==
    /\ MgrInit
    /\ appPc = "idle"
    /\ selected = <<>>
    /\ modIdx = 0
    /\ success_count = 0
    /\ appOut = "none"
    /\ closedInRun = FALSE
    /\ ranMods = <<>>
    /\ loginRet = "none"
    /\ IoInit

\* MatriculaModule.execute(usuario, year=...): the steps of the browser, and,
\* when the download was asked for, _wait_and_rename_file: the file that
\* arrives is moved into the matricula folder under a generated name.
MatriculaExecute ==
    /\ exportNo < MaxExports
    /\ \E ev \in MatEnvs, b \in Bases :
          LET r == MatriculaResult(ev)
              path == GenerateUniqueFilename(Names(matDir), b, Ext)
          IN /\ matOp' = [op |-> "execute", ev |-> ev, steps |-> r.steps, ret |-> r.ret]
             /\ exportNo' = exportNo + 1
             /\ IF ev.file = "arrives"
                THEN /\ matDir' = MoveFile(matDir, exportNo + 1, path).dir
                     /\ UNCHANGED pending
                ELSE IF ev.file = "never"
                THEN /\ pending' = pending \cup {exportNo + 1}
                     /\ UNCHANGED matDir
                ELSE UNCHANGED <<matDir, pending>>
    /\ UNCHANGED <<original, filePc, elapsed, fileOp>>
    /\ UNCHANGED <<mgrVars, appVars, storeVars, modVars, colVars>>

MatNext == MatriculaExecute

MatSpec == MatInit /\ [][MatNext]_vars

\* C26: the steps an export performed are in the stated order, an export
\* that returned True performed every one of them, and an export in which a
\* step was not performed returned False.
C26_TrueMeansEveryStep ==
    matOp.op = "execute"
    => /\ \E pos \in [1..Len(matOp.steps) -> 1..Len(ExportSteps)] :
             /\ \A i \in 1..Len(matOp.steps) : ExportSteps[pos[i]] = matOp.steps[i]
             /\ \A i, j \in 1..Len(matOp.steps) : i < j => pos[i] < pos[j]
       /\ matOp.ret => matOp.steps = ExportSteps
       /\ matOp.steps # ExportSteps => ~matOp.ret

====
